---- MODULE Spec2Model ----
(***************************************************************************)
(* A model of mtdown.c, the multi-threaded downloader: the probe of the    *)
(* server's concurrency (find_max_threads), the planning and start of the  *)
(* segment workers (setup_download), the workers (download_worker) and the *)
(* controller's wait loop and teardown (wait_for_threads, main).           *)
(*                                                                         *)
(* The destination file is a sequence of cells; a cell holds 0 (the zero   *)
(* fill of fallocate, or a hole) or SourceByte(o), the content of the      *)
(* resource at offset o.  One cell stands for one block handed to fwrite   *)
(* and flushed to the file by it.                                          *)
(***************************************************************************)
EXTENDS Integers, Sequences, FiniteSets, Bags, TLC

\* ------------------------------------------------------------------ bounds
\* Largest -n argument tried (besides the absent and the rejected one).
MaxArgN == 3
\* Largest number of concurrent connections the modelled server tolerates.
MaxTolerance == 3
\* Largest content length the HEAD request returns in the main-thread model.
MaxContentLength == 4
\* Largest content length in the planner model.
MaxPlanLength == 40
\* Largest effective thread count and content length in the engine model.
MaxThreads == 2
MaxLen == 3

\* ------------------------------------------------------- program constants
DEFAULT_MAX_THREADS == 4
\* parse_args accepts -n 1..32.
MAX_ALLOWED_THREADS == 32
\* for (int i = 0; i < 5; i++) in download_worker.
MAX_ATTEMPTS == 5
\* char errbuf[CURL_ERROR_SIZE]: the error text has at most 255 characters.
CURL_ERROR_SIZE == 256
\* char log_buffer[2048]
LOG_BUFFER_SIZE == 2048
\* char log[310] in download_worker, char log[256] in the controller.
WORKER_LOG_SIZE == 310
HANDLER_LOG_SIZE == 256
\* The bytes of each format besides its %d and %s, colour codes included.
STARTED_TEXT == 46
RETRYING_TEXT == 40
EXITING_TEXT == 39
RESUMED_TEXT == 35
PAUSED_TEXT == 34
CANCELLED_TEXT == 56
HTTP_OK == 200
\* A response code other than 200 (the server refusing the connection).
HTTP_UNAVAILABLE == 503
\* unsigned long long has 2^64 values; TLC's integers are 32-bit, so the
\* modulus of the conversion is scaled to 2^16, far above every length here.
ULLONG_RANGE == 65536

VARIABLES
    pc,                 \* where the main thread is
    requested,          \* settings.max_threads as parse_args left it
    tolerance,          \* the server: concurrent connections it answers with 200
    max_threads,        \* settings.max_threads
    probe_i,            \* find_max_threads: i
    probe_j,            \* find_max_threads: j of the join loop
    probe_best,         \* find_max_threads: the local max_threads
    probe_threads,      \* the probe threads of the current level: code and done
    tried,              \* history: the levels find_max_threads started, in
                        \* order, and whether all requests of each got 200
    res,                \* the content length the server reports (0: none)
    chunk_size,         \* setup_download: chunk_size
    setup_i,            \* setup_download: i of the worker loop
    args,               \* thread_infos[i]->args: start, end
    buffer,             \* thread_infos[i]->buffer: open, pos
    curl,               \* thread_infos[i]->curl: "live"/"cleaned"; receive paused
    wpc,                \* where worker i is
    attempt,            \* download_worker: i of the retry loop
    xfer,               \* bytes the transport delivered in the current attempt
    progress,           \* progress.total_bytes[i], progress.downloaded_bytes[i]
    file,               \* the destination file's content
    log_buffer,         \* log_buffer: the entries appended
    completed_counter,  \* completed_counter
    paused,             \* paused
    cancel_req,         \* pthread_cancel was called on worker i
    toggles,            \* how many times the user pressed P
    completed_mutex,    \* completed_mutex: the workers holding it
    loaded,             \* completed_counter++ of worker i: the value it read
    scanned,            \* strcat of worker i: the log as its search for the
                        \* end of log_buffer found it
    reported,           \* the final status main has printed ("none": none yet)
    errlen,             \* the transport: length of the error text in errbuf
    disk,               \* the file system: "ok", or "full" (fwrite fails)
    overlaps,           \* the scheduler: how often the copy of a strcat has
                        \* landed on entries appended after its search
    written             \* history: the file offsets worker i has written

probeVars == <<probe_i, probe_j, probe_best, probe_threads, tried>>
planVars == <<chunk_size, setup_i, args>>
workerVars == <<buffer, curl, wpc, attempt, xfer, progress, written, cancel_req,
                loaded, scanned>>
sharedVars == <<file, log_buffer, completed_counter, paused, toggles,
                completed_mutex, reported>>
envVars == <<errlen, disk, overlaps>>
vars == <<pc, requested, tolerance, max_threads, res, probeVars, planVars,
          workerVars, sharedVars, envVars>>

\* ----------------------------------------------------------------- helpers
Min(a, b) == IF a < b THEN a ELSE b

\* The content of the resource at offset o (never 0, the fill value).
SourceByte(o) == o + 1

\* No worker exists yet: every per-worker variable is the empty function.
NoWorkers == <<>>

\* parse_args: -n absent (0 here) gives the default; 1..32 is kept; anything
\* else ends the program (the result 0 stands for exit(EXIT_FAILURE)).
ParseArgs(n) ==
    IF n = 0 THEN DEFAULT_MAX_THREADS
    ELSE IF n < 1 \/ n > MAX_ALLOWED_THREADS THEN 0
    ELSE n

\* ----------------------------------------------------------------- planner
\* curl_off_t chunk_size = res / settings.max_threads
ChunkSize(r, n) == r \div n

\* The conversion of a curl_off_t to unsigned long long.
ToULL(v) == v % ULLONG_RANGE

\* thread_infos[i]->args->start = i * chunk_size
SegStart(i, chunk) == ToULL(i * chunk)

\* A planner that forgets the - 1 of a segment's inclusive end.
SegEndNoMinusOne(i, n, chunk, r) ==
    IF i = n - 1 THEN ToULL(r) ELSE ToULL((i + 1) * chunk)

\* thread_infos[i]->args->end = (i + 1) * chunk_size - 1, and res for the last.
SegEnd(i, n, chunk, r) ==
    IF i = n - 1 THEN ToULL(r) ELSE ToULL((i + 1) * chunk - 1)

Segment(i, n, chunk, r) ==
    [index |-> i, start |-> SegStart(i, chunk), end |-> SegEnd(i, n, chunk, r)]

\* ------------------------------------------------------------------- files
\* fopen(settings.filename, "wb"): the file is truncated to length 0.
FopenWb(f) == <<>>

\* fallocate(fd, 0, 0, len): the file is extended with zeros to len bytes.
Fallocate(f, len) ==
    IF Len(f) >= len THEN f ELSE f \o [k \in 1..(len - Len(f)) |-> 0]

\* A write of byte b at offset pos (0-based): a hole before it reads as zeros.
WriteAt(f, pos, b) ==
    LET g == Fallocate(f, pos + 1)
    IN  [g EXCEPT ![pos + 1] = b]

\* ------------------------------------------------------------------- probe
\* The codes the i requests of one level can get from a server that answers
\* at most `tol` concurrent connections with 200: all 200 when i <= tol,
\* otherwise at least one request is refused.
LevelOutcomes(i, tol) ==
    {c \in [0..(i - 1) -> {HTTP_OK, HTTP_UNAVAILABLE}] :
        IF i <= tol THEN \A j \in 0..(i - 1) : c[j] = HTTP_OK
        ELSE \E j \in 0..(i - 1) : c[j] # HTTP_OK}

\* find_max_threads: the top of the for loop: start the i threads of the
\* level, or return max_threads when i > settings.max_threads.
ProbeCreate ==
    /\ pc = "probe"
    /\ IF probe_i <= max_threads
       THEN /\ \E c \in LevelOutcomes(probe_i, tolerance) :
                 /\ probe_threads' = [j \in 0..(probe_i - 1) |->
                                         [code |-> c[j], done |-> FALSE]]
                 /\ tried' = Append(tried,
                        [level |-> probe_i,
                         ok |-> \A j \in 0..(probe_i - 1) : c[j] = HTTP_OK])
            /\ probe_j' = 0
            /\ pc' = "probe_join"
            /\ UNCHANGED <<max_threads, probe_i, probe_best>>
       ELSE /\ max_threads' = probe_best
            /\ pc' = "probed"
            /\ UNCHANGED probeVars
    /\ UNCHANGED <<envVars, requested, tolerance, res, planVars, workerVars, sharedVars>>

\* find_max_thread_worker: the request ends and the thread returns its code.
ProbeWorkerDone(j) ==
    /\ j \in DOMAIN probe_threads
    /\ ~probe_threads[j].done
    /\ pc \notin {"exit", "crash", "exit_failure"}
    /\ probe_threads' = [probe_threads EXCEPT ![j].done = TRUE]
    /\ UNCHANGED <<envVars, pc, requested, tolerance, max_threads, res, probe_i, probe_j,
                   probe_best, tried, planVars, workerVars, sharedVars>>

\* A probe that returns the failing level itself.
ProbeFailResultSame(i) == i

\* What find_max_threads returns when the joined thread's code is not 200.
ProbeFailResult(i) == i - 1

\* find_max_threads: pthread_join of thread j and the test of its result.
ProbeJoin ==
    /\ pc = "probe_join"
    /\ probe_threads[probe_j].done
    /\ IF probe_threads[probe_j].code # HTTP_OK
       THEN /\ max_threads' = ProbeFailResult(probe_i)
            /\ pc' = "probed"
            /\ UNCHANGED <<probe_i, probe_j, probe_best>>
       ELSE IF probe_j + 1 < probe_i
       THEN /\ probe_j' = probe_j + 1
            /\ UNCHANGED <<pc, max_threads, probe_i, probe_best>>
       ELSE /\ probe_best' = probe_i
            /\ probe_i' = probe_i + 1
            /\ pc' = "probe"
            /\ UNCHANGED <<max_threads, probe_j>>
    /\ UNCHANGED <<envVars, requested, tolerance, res, probe_threads, tried, planVars,
                   workerVars, sharedVars>>

\* ------------------------------------------------------------------- setup
\* The bytes the server sends for the range request of segment a: the source
\* from a.start to a.end, cut at the end of the resource.
TotalBytes(a, r) == Min(a.end, r - 1) - a.start + 1

LogEntry(kind, thread) == [kind |-> kind, thread |-> thread]

\* strcat(log_buffer, log)
Strcat(log, entry) == log (+) SetToBag({entry})

\* What the file system does with setup_download's requests.
FileOutcomes == {"ok", "fopen_fails", "fallocate_fails"}

\* fopen(filename, "wb"), fallocate(fileno(file), 0, 0, len), fclose: when
\* fallocate fails it returns -1, which the code does not look at, and leaves
\* the file as fopen made it; ferror(file) is false either way.
CreateFile(f, len, env) ==
    IF env = "fallocate_fails" THEN FopenWb(f) ELSE Fallocate(FopenWb(f), len)

\* setup_download up to the worker loop: the content length, the chunk size,
\* and the destination file created and allocated to res bytes, or
\* exit(EXIT_FAILURE) when it cannot be created.  A division by zero
\* (settings.max_threads = 0) either kills the process or yields a value the
\* loop never uses.
SetupBegin(env) ==
    /\ pc = "probed"
    /\ IF res <= 0
       THEN /\ pc' = "exit_failure"
            /\ UNCHANGED <<chunk_size, file, paused>>
       ELSE \/ /\ max_threads = 0
               /\ pc' = "crash"
               /\ UNCHANGED <<chunk_size, file, paused>>
            \/ /\ chunk_size' = IF max_threads = 0 THEN 0
                                 ELSE ChunkSize(res, max_threads)
               /\ paused' = FALSE
               /\ IF env = "fopen_fails"
                  THEN /\ pc' = "exit_failure"
                       /\ UNCHANGED file
                  ELSE /\ pc' = "setup"
                       /\ file' = CreateFile(file, res, env)
    /\ UNCHANGED <<envVars, requested, tolerance, max_threads, res, probeVars, setup_i,
                   args, workerVars, log_buffer, completed_counter, toggles,
                   completed_mutex, reported>>

\* A worker loop that runs once more than there are threads.
SetupLoopOneMore(i, n) == i <= n

\* for (int i = 0; i < settings.max_threads; i++)
SetupLoopContinues(i, n) == i < n

\* The state a worker's thread starts in.
WorkerStart == "perform"

\* One iteration of setup_download's worker loop: the worker's handle on the
\* file is opened with "wb" and moved to i * chunk_size, its segment is
\* planned, the start is logged and the thread is created; after the last
\* iteration setup_download returns and main enters wait_for_threads.  When
\* the worker's fopen fails the process exits, the threads started by the
\* earlier iterations with it.
SetupStep(env) ==
    /\ pc = "setup"
    /\ IF SetupLoopContinues(setup_i, max_threads) /\ env = "fopen_fails"
       THEN /\ pc' = "exit_failure"
            /\ UNCHANGED <<file, log_buffer, setup_i, args, workerVars>>
       ELSE IF SetupLoopContinues(setup_i, max_threads)
       THEN /\ file' = FopenWb(file)
            /\ buffer' = buffer @@
                 (setup_i :> [open |-> TRUE, pos |-> setup_i * chunk_size])
            /\ args' = args @@
                 (setup_i :> Segment(setup_i, max_threads, chunk_size, res))
            /\ curl' = curl @@ (setup_i :> [state |-> "live", recv_paused |-> FALSE])
            /\ log_buffer' = Strcat(log_buffer, LogEntry("started", setup_i))
            /\ wpc' = wpc @@ (setup_i :> WorkerStart)
            /\ attempt' = attempt @@ (setup_i :> 0)
            /\ xfer' = xfer @@ (setup_i :> 0)
            /\ progress' = progress @@ (setup_i :> [total |-> 0, downloaded |-> 0])
            /\ written' = written @@ (setup_i :> {})
            /\ cancel_req' = cancel_req @@ (setup_i :> FALSE)
            /\ loaded' = loaded @@ (setup_i :> 0)
            /\ scanned' = scanned @@ (setup_i :> EmptyBag)
            /\ setup_i' = setup_i + 1
            /\ UNCHANGED pc
       ELSE /\ pc' = "wait"
            /\ UNCHANGED <<file, log_buffer, setup_i, args, workerVars>>
    /\ UNCHANGED <<envVars, requested, tolerance, max_threads, res, probeVars, chunk_size,
                   completed_counter, paused, toggles, completed_mutex, reported>>

\* ------------------------------------------------------------------ worker
\* The process is alive: main has neither returned nor been killed.
Alive == pc \notin {"exit", "crash", "exit_failure"}

Workers == DOMAIN wpc

\* fwrite(ptr, size, nmemb, buffer) of byte b at offset pos on file system d:
\* on a full one nothing is written.
Fwrite(f, pos, b, d) == IF d = "full" THEN f ELSE WriteAt(f, pos, b)

\* write_callback returns realsize whatever fwrite returned (k, the bytes
\* it stored).
CallbackReturns(realsize, k) == realsize

\* write_callback and progress_callback: the transport hands the next block
\* of the range to the worker, which writes it at its handle's position; the
\* transport goes on when the callback returns the size of the block, and
\* fails the transfer (CURLE_WRITE_ERROR) otherwise.
Receive(w) ==
    /\ Alive
    /\ w \in Workers
    /\ wpc[w] = "perform"
    /\ ~curl[w].recv_paused
    /\ xfer[w] < TotalBytes(args[w], res)
    /\ file' = Fwrite(file, buffer[w].pos,
                      SourceByte(args[w].start + xfer[w]), disk)
    /\ written' = [written EXCEPT ![w] =
                      IF disk = "full" THEN @ ELSE @ \cup {buffer[w].pos}]
    /\ buffer' = [buffer EXCEPT ![w].pos = @ + 1]
    /\ xfer' = [xfer EXCEPT ![w] =
                   IF CallbackReturns(1, IF disk = "full" THEN 0 ELSE 1) = 1
                   THEN @ + 1 ELSE @]
    /\ progress' = [progress EXCEPT ![w] =
                       [total |-> TotalBytes(args[w], res), downloaded |-> xfer[w] + 1]]
    /\ UNCHANGED <<envVars, pc, requested, tolerance, max_threads, res, probeVars, planVars,
                   curl, wpc, attempt, cancel_req, loaded, scanned, log_buffer,
                   completed_counter, paused, toggles, completed_mutex, reported>>

\* curl_easy_perform returns CURLE_OK: the whole range was delivered; break.
Succeed(w) ==
    /\ Alive
    /\ w \in Workers
    /\ wpc[w] = "perform"
    /\ xfer[w] = TotalBytes(args[w], res)
    /\ wpc' = [wpc EXCEPT ![w] = "cleanup"]
    /\ UNCHANGED <<envVars, pc, requested, tolerance, max_threads, res, probeVars, planVars,
                   buffer, curl, attempt, xfer, progress, written, cancel_req,
                   loaded, scanned, sharedVars>>

\* The entry a failed attempt i logs.
FailureKind(i) == IF i = MAX_ATTEMPTS - 1 THEN "exiting" ELSE "retrying"

\* A retry loop that allows one attempt more.
TryAgainOnceMore(i) == i + 1 < MAX_ATTEMPTS + 1

\* Whether the retry loop runs again after attempt i failed.
TryAgain(i) == i + 1 < MAX_ATTEMPTS

\* Where fseek puts the handle after a failed attempt.
SeekAfterFailure(a) == a.start

\* curl_easy_perform returns an error after any prefix of the range: the entry
\* is logged, the handle is moved back to the segment's start, and after the
\* sleep the loop either starts the next attempt (a new transfer, receiving)
\* or ends.  No lock is taken for the append; here no other thread runs
\* between the search of strcat and its copy.
Fail(w) ==
    /\ Alive
    /\ w \in Workers
    /\ wpc[w] = "perform"
    /\ log_buffer' = Strcat(log_buffer, LogEntry(FailureKind(attempt[w]), w))
    /\ buffer' = [buffer EXCEPT ![w].pos = SeekAfterFailure(args[w])]
    /\ attempt' = [attempt EXCEPT ![w] = @ + 1]
    /\ IF TryAgain(attempt[w])
       THEN /\ xfer' = [xfer EXCEPT ![w] = 0]
            /\ curl' = [curl EXCEPT ![w].recv_paused = FALSE]
            /\ UNCHANGED wpc
       ELSE /\ wpc' = [wpc EXCEPT ![w] = "cleanup"]
            /\ UNCHANGED <<xfer, curl>>
    /\ UNCHANGED <<envVars, pc, requested, tolerance, max_threads, res, probeVars,
                   planVars, progress, written, cancel_req, loaded, scanned, file,
                   completed_counter, paused, toggles, completed_mutex, reported>>

\* How often the copy of a strcat lands on entries appended after its search.
MaxOverlaps == 1

\* The same failure when the scheduler lets other threads run inside
\* strcat(log_buffer, log): the search for the end of log_buffer is done, the
\* copy is not.  The scheduler does so while fewer than MaxOverlaps copies
\* have overwritten something.
FailPreempted(w) ==
    /\ Alive
    /\ w \in Workers
    /\ wpc[w] = "perform"
    /\ overlaps < MaxOverlaps
    /\ scanned' = [scanned EXCEPT ![w] = log_buffer]
    /\ wpc' = [wpc EXCEPT ![w] = "logging"]
    /\ UNCHANGED <<envVars, pc, requested, tolerance, max_threads, res,
                   probeVars, planVars, buffer, curl, attempt, xfer, progress,
                   written, cancel_req, loaded, sharedVars>>

\* The entries of log a that log b still holds.
StillThere(a, b) ==
    [e \in {x \in DOMAIN a \cap DOMAIN b : a[x] > 0 /\ b[x] > 0} |->
        Min(a[e], b[e])]

\* The copy of strcat lands where its search ended: what other threads have
\* appended to the log since is overwritten, wholly or in part, and what
\* the search found and is still there stays.
CopyAtEnd(found, now, entry) == Strcat(StillThere(found, now), entry)

\* The copy of a preempted strcat, and the rest of the failed attempt.
LogAppend(w) ==
    /\ Alive
    /\ w \in Workers
    /\ wpc[w] = "logging"
    /\ log_buffer' = CopyAtEnd(scanned[w], log_buffer,
                               LogEntry(FailureKind(attempt[w]), w))
    /\ scanned' = [scanned EXCEPT ![w] = EmptyBag]
    /\ overlaps' = IF scanned[w] = log_buffer THEN overlaps ELSE overlaps + 1
    /\ buffer' = [buffer EXCEPT ![w].pos = SeekAfterFailure(args[w])]
    /\ attempt' = [attempt EXCEPT ![w] = @ + 1]
    /\ IF TryAgain(attempt[w])
       THEN /\ xfer' = [xfer EXCEPT ![w] = 0]
            /\ curl' = [curl EXCEPT ![w].recv_paused = FALSE]
            /\ wpc' = [wpc EXCEPT ![w] = "perform"]
       ELSE /\ wpc' = [wpc EXCEPT ![w] = "cleanup"]
            /\ UNCHANGED <<xfer, curl>>
    /\ UNCHANGED <<errlen, disk, pc, requested, tolerance, max_threads, res, probeVars,
                   planVars, progress, written, cancel_req, loaded, file,
                   completed_counter, paused, toggles, completed_mutex, reported>>

\* curl_easy_cleanup(curl)
Cleanup(w) ==
    /\ Alive
    /\ w \in Workers
    /\ wpc[w] = "cleanup"
    /\ curl' = [curl EXCEPT ![w].state = "cleaned"]
    /\ wpc' = [wpc EXCEPT ![w] = "count"]
    /\ UNCHANGED <<envVars, pc, requested, tolerance, max_threads, res, probeVars, planVars,
                   buffer, attempt, xfer, progress, written, cancel_req, loaded, scanned,
                   sharedVars>>

\* No thread holds the mutex.
MutexFree(m) == m = {}

\* main has called pthread_mutex_destroy(&completed_mutex).
MutexDestroyed == pc \in {"destroyed", "freed"}

\* pthread_mutex_lock returns: the mutex is free and the caller now holds it;
\* or the mutex was destroyed, a use that is undefined and that, besides
\* ending the process (UseAfterRelease), may return at once with an error
\* the worker does not look at.
LockReturns(m) == MutexFree(m) \/ MutexDestroyed

\* pthread_mutex_lock(&completed_mutex) and the read of completed_counter++.
CountLock(w) ==
    /\ Alive
    /\ w \in Workers
    /\ wpc[w] = "count"
    /\ LockReturns(completed_mutex)
    /\ completed_mutex' = completed_mutex \cup {w}
    /\ loaded' = [loaded EXCEPT ![w] = completed_counter]
    /\ wpc' = [wpc EXCEPT ![w] = "counting"]
    /\ UNCHANGED <<envVars, pc, requested, tolerance, max_threads, res, probeVars, planVars,
                   buffer, curl, attempt, xfer, progress, written, cancel_req,
                   scanned, file, log_buffer, completed_counter, paused, toggles,
                   reported>>

\* The write of completed_counter++ and pthread_mutex_unlock(&completed_mutex).
CountUnlock(w) ==
    /\ Alive
    /\ w \in Workers
    /\ wpc[w] = "counting"
    /\ completed_counter' = loaded[w] + 1
    /\ completed_mutex' = completed_mutex \ {w}
    /\ wpc' = [wpc EXCEPT ![w] = "close"]
    /\ UNCHANGED <<envVars, pc, requested, tolerance, max_threads, res, probeVars, planVars,
                   buffer, curl, attempt, xfer, progress, written, cancel_req,
                   loaded, scanned, file, log_buffer, paused, toggles, reported>>

\* fclose(thread_info->buffer); return NULL
Close(w) ==
    /\ Alive
    /\ w \in Workers
    /\ wpc[w] = "close"
    /\ buffer' = [buffer EXCEPT ![w].open = FALSE]
    /\ wpc' = [wpc EXCEPT ![w] = "done"]
    /\ UNCHANGED <<envVars, pc, requested, tolerance, max_threads, res, probeVars, planVars,
                   curl, attempt, xfer, progress, written, cancel_req, loaded, scanned,
                   sharedVars>>

\* A cancellation request acts at a cancellation point: inside the transfer,
\* in the sleep or the cleanup that follow a failure, or in fclose.
Cancelled(w) ==
    /\ Alive
    /\ w \in Workers
    /\ cancel_req[w]
    /\ wpc[w] \in {"perform", "cleanup", "close"}
    /\ wpc' = [wpc EXCEPT ![w] = "cancelled"]
    /\ UNCHANGED <<envVars, pc, requested, tolerance, max_threads, res, probeVars, planVars,
                   buffer, curl, attempt, xfer, progress, written, cancel_req,
                   loaded, scanned, sharedVars>>

\* ------------------------------------------------------------- controller
\* The user pauses the download only while P was pressed fewer than
\* MaxToggles times (a press that resumes it is always possible).
MaxToggles == 2

\* strstr(log_buffer, "exiting...") != NULL: the text ends the entry of a
\* worker's last failure and the entry of quit_handler.
HasExiting(log) == \E e \in BagToSet(log) : e.kind \in {"exiting", "cancelled"}

\* pause_handler's loop: curl_easy_pause on every worker's handle, with
\* CURLPAUSE_CONT when paused and CURLPAUSE_RECV otherwise.
PauseAll(c, wasPaused) ==
    [i \in DOMAIN c |->
        IF c[i].state = "live" THEN [c[i] EXCEPT !.recv_paused = ~wasPaused]
        ELSE c[i]]

\* The entry pause_handler or quit_handler appends for key k.
KeyEntry(k, wasPaused) ==
    IF k = "q" THEN LogEntry("cancelled", -1)
    ELSE IF wasPaused THEN LogEntry("resumed", -1)
    ELSE LogEntry("paused", -1)

\* One iteration of wait_for_threads' loop: the key read by getch (none after
\* the timeout), its handler, the progress display, and the abort of every
\* worker when the log holds "exiting...": pthread_cancel on each thread (the
\* 1 ms timeout set on each handle adds nothing here, a transfer can fail at
\* any time).
WaitPoll(k) ==
    /\ pc = "wait"
    /\ completed_counter < max_threads
    /\ k = "p" => (toggles < MaxToggles \/ paused)
    /\ LET log1 == IF k = "none" THEN log_buffer
                   ELSE Strcat(log_buffer, KeyEntry(k, paused))
       IN  /\ log_buffer' = log1
           /\ IF k = "p"
              THEN /\ curl' = PauseAll(curl, paused)
                   /\ paused' = ~paused
                   /\ toggles' = toggles + 1
              ELSE UNCHANGED <<curl, paused, toggles>>
           /\ IF HasExiting(log1)
              THEN /\ cancel_req' = [i \in DOMAIN cancel_req |-> TRUE]
                   /\ pc' = "complete"
              ELSE UNCHANGED <<cancel_req, pc>>
    /\ UNCHANGED <<envVars, requested, tolerance, max_threads, res, probeVars, planVars,
                   buffer, wpc, attempt, xfer, progress, written, loaded, scanned,
                   file,
                   completed_counter, completed_mutex, reported>>

\* The iteration of key k calls libcurl on a handle whose worker has already
\* passed curl_easy_cleanup: curl_easy_pause in pause_handler, or
\* curl_easy_setopt in the abort of every worker.
TouchesCleaned(k) ==
    /\ \E w \in Workers : curl[w].state = "cleaned"
    /\ \/ k = "p"
       \/ HasExiting(IF k = "q" THEN Strcat(log_buffer, KeyEntry(k, paused))
                     ELSE log_buffer)

\* Such a call uses freed memory, which is undefined: the iteration may go on
\* as if the handle were not there (WaitPoll), or the process ends inside the
\* call: in pause_handler before its log entry, in the abort after that of
\* quit_handler and before the workers are cancelled.
UseAfterCleanup(k) ==
    /\ pc = "wait"
    /\ completed_counter < max_threads
    /\ k = "p" => (toggles < MaxToggles \/ paused)
    /\ TouchesCleaned(k)
    /\ log_buffer' = IF k = "q" THEN Strcat(log_buffer, KeyEntry(k, paused))
                     ELSE log_buffer
    /\ pc' = "crash"
    /\ UNCHANGED <<envVars, requested, tolerance, max_threads, res, probeVars, planVars,
                   workerVars, file, completed_counter, paused, toggles,
                   completed_mutex, reported>>

\* wait_for_threads returns because completed_counter reached the count.
WaitReturn ==
    /\ pc = "wait"
    /\ ~(completed_counter < max_threads)
    /\ pc' = "complete"
    /\ UNCHANGED <<envVars, requested, tolerance, max_threads, res, probeVars, planVars,
                   workerVars, sharedVars>>

\* A main that reports what the log says about the download.
FinalStatusByLog(log) ==
    IF \E e \in BagToSet(log) : e.kind = "cancelled" THEN "Cancelled"
    ELSE IF \E e \in BagToSet(log) : e.kind = "exiting" THEN "Failed"
    ELSE "Download Complete"

\* print_center("Download Complete "): what main prints does not depend on
\* how wait_for_threads ended.
FinalStatus(log) == "Download Complete"

\* main after wait_for_threads: the final status is printed and
\* pthread_mutex_destroy(&completed_mutex) is called.
MutexDestroy ==
    /\ pc = "complete"
    /\ pc' = "destroyed"
    /\ reported' = FinalStatus(log_buffer)
    /\ UNCHANGED <<envVars, requested, tolerance, max_threads, res, probeVars,
                   planVars, workerVars, file, log_buffer, completed_counter,
                   paused, toggles, completed_mutex>>

\* free_all: thread_infos[i]->args, thread_infos[i], thread_infos and the
\* progress arrays are freed.
FreeAll ==
    /\ pc = "destroyed"
    /\ pc' = "freed"
    /\ UNCHANGED <<envVars, requested, tolerance, max_threads, res, probeVars, planVars,
                   workerVars, sharedVars>>

\* curl_global_cleanup and return 0: the process ends, and its threads with it.
MainReturn ==
    /\ pc = "freed"
    /\ pc' = "exit"
    /\ UNCHANGED <<envVars, requested, tolerance, max_threads, res, probeVars, planVars,
                   workerVars, sharedVars>>

\* The next step of worker w uses something main has released: the mutex
\* after pthread_mutex_destroy, or thread_info, its args and the progress
\* arrays (the callbacks of a transfer, the log entry and fseek of a failure,
\* fclose(thread_info->buffer)) after free_all.
UsesReleased(w) ==
    \/ MutexDestroyed /\ wpc[w] \in {"count", "counting"}
    \/ pc = "freed" /\ wpc[w] \in {"perform", "close"}

\* Such a use is undefined: the worker's step may go on as if nothing had
\* been released (the worker's own actions), or end the process.
UseAfterRelease(w) ==
    /\ w \in Workers
    /\ UsesReleased(w)
    /\ pc' = "crash"
    /\ UNCHANGED <<envVars, requested, tolerance, max_threads, res, probeVars, planVars,
                   workerVars, sharedVars>>

\* ---------------------------------------------------------- specifications
\* The state of find_max_threads after a probe of n levels that all passed.
ProbePassed(n) ==
    /\ probe_i = n + 1
    /\ probe_j = 0
    /\ probe_best = n
    /\ probe_threads = [j \in 0..(n - 1) |-> [code |-> HTTP_OK, done |-> TRUE]]
    /\ tried = [k \in 1..n |-> [level |-> k, ok |-> TRUE]]

\* Nothing of the download exists before setup_download.
NoDownload ==
    /\ chunk_size = 0
    /\ setup_i = 0
    /\ args = NoWorkers
    /\ buffer = NoWorkers
    /\ curl = NoWorkers
    /\ wpc = NoWorkers
    /\ attempt = NoWorkers
    /\ xfer = NoWorkers
    /\ progress = NoWorkers
    /\ written = NoWorkers
    /\ cancel_req = NoWorkers
    /\ loaded = NoWorkers
    /\ scanned = NoWorkers
    /\ reported = "none"
    /\ completed_mutex = {}
    /\ file = <<>>
    /\ log_buffer = EmptyBag
    /\ completed_counter = 0
    /\ paused = FALSE
    /\ toggles = 0

\* Length of the error text of a typical failure ("Couldn't connect to
\* server").
ShortErrLen == 26

\* An environment that makes no trouble: short error texts, room on the disk.
Benign == errlen = ShortErrLen /\ disk = "ok" /\ overlaps = 0

\* The -n arguments tried: absent (0), 1..MaxArgN, and one parse_args rejects.
ArgNs == (0..MaxArgN) \cup {MAX_ALLOWED_THREADS + 1}

\* main after parse_args, before find_max_threads.
InitMain ==
    /\ \E n \in ArgNs :
         /\ requested = ParseArgs(n)
         /\ max_threads = ParseArgs(n)
         /\ pc = IF ParseArgs(n) = 0 THEN "exit_failure" ELSE "probe"
    /\ tolerance \in 0..MaxTolerance
    /\ res \in 0..MaxContentLength
    /\ probe_i = 1
    /\ probe_j = 0
    /\ probe_best = 1
    /\ probe_threads = NoWorkers
    /\ tried = <<>>
    /\ NoDownload
    /\ Benign

\* The main thread alone, from find_max_threads to the end of setup_download.
NextMain ==
    \/ ProbeCreate
    \/ \E j \in 0..MAX_ALLOWED_THREADS : ProbeWorkerDone(j)
    \/ ProbeJoin
    \/ \E env \in FileOutcomes : SetupBegin(env)
    \/ \E env \in {"ok", "fopen_fails"} : SetupStep(env)

SpecMain == InitMain /\ [][NextMain]_vars

\* setup_download entered with any thread count and content length.
InitPlan ==
    /\ max_threads \in 1..MAX_ALLOWED_THREADS
    /\ res \in 1..MaxPlanLength
    /\ requested = max_threads
    /\ tolerance = max_threads
    /\ pc = "probed"
    /\ ProbePassed(max_threads)
    /\ NoDownload
    /\ Benign

NextPlan ==
    \/ \E env \in FileOutcomes : SetupBegin(env)
    \/ \E env \in {"ok", "fopen_fails"} : SetupStep(env)

SpecPlan == InitPlan /\ [][NextPlan]_vars

\* The download: setup_download, the workers, wait_for_threads and the end.
Init ==
    /\ max_threads \in 1..MaxThreads
    /\ res \in 1..MaxLen
    /\ requested = max_threads
    /\ tolerance = max_threads
    /\ pc = "probed"
    /\ ProbePassed(max_threads)
    /\ NoDownload
    /\ Benign

\* Every interleaving of the steps of the controller and of the workers,
\* each strcat on log_buffer running without another thread in between.
Next ==
    \/ \E env \in FileOutcomes : SetupBegin(env)
    \/ \E env \in {"ok", "fopen_fails"} : SetupStep(env)
    \/ \E w \in 0..(MaxThreads - 1) :
         \/ Receive(w)
         \/ Succeed(w)
         \/ Fail(w)
         \/ Cleanup(w)
         \/ CountLock(w)
         \/ CountUnlock(w)
         \/ Close(w)
         \/ Cancelled(w)
         \/ UseAfterRelease(w)
    \/ \E k \in {"none", "p", "q"} : WaitPoll(k) \/ UseAfterCleanup(k)
    \/ WaitReturn
    \/ MutexDestroy
    \/ FreeAll
    \/ MainReturn

Spec == Init /\ [][Next]_vars

\* ------------------------------------------------------------ the planner
\* setup_download has planned every segment and returned.
PlanDone == pc = "wait"

Segments == DOMAIN args

\* The offsets of the inclusive range of segment i.
SegOffsets(i) == args[i].start .. args[i].end

RECURSIVE SumSizes(_)
\* The sum of end - start + 1 over the segments 0..k-1.
SumSizes(k) ==
    IF k = 0 THEN 0
    ELSE SumSizes(k - 1) + (args[k - 1].end - args[k - 1].start + 1)

\* C3: for contentLength > 0 and threadCount in 1..32 with threadCount <=
\* contentLength, the union of the inclusive ranges of the planned segments
\* is exactly [0, contentLength): every byte 0..contentLength-1 is in some
\* segment, no byte outside is in any segment, no byte is in two segments.
C3_CoverageExact ==
    (PlanDone /\ max_threads \in 1..MAX_ALLOWED_THREADS /\ max_threads <= res) =>
        /\ \A o \in 0..(res - 1) : \E i \in Segments : o \in SegOffsets(i)
        /\ \A i \in Segments : SegOffsets(i) \subseteq 0..(res - 1)
        /\ \A i, j \in Segments : i # j => SegOffsets(i) \cap SegOffsets(j) = {}

\* C4: for contentLength > 0 and threadCount in 1..32 with threadCount <=
\* contentLength, every segment has start <= end, consecutive segments
\* satisfy segment[i].end + 1 = segment[i+1].start, and any two distinct
\* segments a, b have a.end < b.start or b.end < a.start.
C4_DisjointOrdered ==
    (PlanDone /\ max_threads \in 1..MAX_ALLOWED_THREADS /\ max_threads <= res) =>
        /\ \A i \in Segments : args[i].start <= args[i].end
        /\ \A i \in Segments :
             (i + 1) \in Segments => args[i].end + 1 = args[i + 1].start
        /\ \A i, j \in Segments :
             i # j => (args[i].end < args[j].start \/ args[j].end < args[i].start)

\* C4's case: a plan of several segments whose chunks leave a remainder.
C4_Witness ==
    /\ PlanDone
    /\ max_threads = 4
    /\ res = 10
    /\ args[0] = [index |-> 0, start |-> 0, end |-> 1]
    /\ args[3] = [index |-> 3, start |-> 6, end |-> 10]

\* C5: for every contentLength > 0 and threadCount in 1..32 the plan has
\* exactly threadCount segments, segment i has start = i*chunkSize and end =
\* (i+1)*chunkSize - 1 with chunkSize = contentLength div threadCount, except
\* that the last segment's end is contentLength, and the sum of end-start+1
\* over the segments is contentLength + 1.
C5_ReferenceFormula ==
    (PlanDone /\ res > 0 /\ max_threads \in 1..MAX_ALLOWED_THREADS) =>
        /\ Segments = 0..(max_threads - 1)
        /\ \A i \in Segments :
             /\ args[i].start = i * (res \div max_threads)
             /\ args[i].end = IF i = max_threads - 1 THEN res
                              ELSE (i + 1) * (res \div max_threads) - 1
        /\ SumSizes(max_threads) = res + 1

\* -------------------------------------------------------------- the probe
\* find_max_threads has returned and main has stored its result.
ProbeReturned == requested # 0 /\ pc \notin {"probe", "probe_join"}

\* The largest level k such that every level 1..k was tried and passed.
LargestPassed ==
    Cardinality({k \in 1..Len(tried) : \A m \in 1..k : tried[m].ok})

\* C6: the probe tries the levels 1, 2, ... in order, each once; it tries no
\* level after one where a request did not return 200; its result is the
\* largest level i such that at every level 1..i all i requests returned
\* 200, and maxCandidate when no level fails.
C6_ProbeResult ==
    /\ \A k \in 1..Len(tried) : tried[k].level = k
    /\ \A k \in 1..(Len(tried) - 1) : tried[k].ok
    /\ Len(tried) <= requested
    /\ ProbeReturned =>
         /\ max_threads = LargestPassed
         /\ (\A k \in 1..Len(tried) : tried[k].ok) =>
               (Len(tried) = requested /\ max_threads = requested)

\* C6's case: at level 3 two of the three requests return 200 and one does
\* not, and the probe returns 2.
C6_Witness ==
    /\ pc = "probed"
    /\ Len(tried) = 3
    /\ DOMAIN probe_threads = 0..2
    /\ Cardinality({j \in 0..2 : probe_threads[j].code = HTTP_OK}) = 2
    /\ max_threads = 2

\* C7: for every maxCandidate in 1..32 and every pattern of outcomes the
\* probe's result lies in 1..maxCandidate (1 when the request of level 1
\* fails), so the planner is never given a thread count of 0.
C7_ProbeAtLeastOne ==
    ProbeReturned => max_threads \in 1..requested

\* C8: the number of workers spawned equals the number of planned segments
\* and equals min(requested threads, what the server tolerates); it exceeds
\* neither the requested count nor 32, and each segment has its one worker.
C8_WorkerCount ==
    /\ Workers = Segments
    /\ \A i \in Segments : args[i].index = i
    /\ Cardinality(Workers) <= requested
    /\ Cardinality(Workers) <= MAX_ALLOWED_THREADS
    /\ PlanDone => Workers = 0..(Min(requested, tolerance) - 1)

\* C8's case: three threads requested of a server that tolerates two.
C8_Witness ==
    /\ PlanDone
    /\ requested = 3
    /\ tolerance = 2
    /\ Workers = {0, 1}
    /\ Segments = {0, 1}

\* ------------------------------------------------------------ the workers
\* Worker w left the retry loop by the break: its last attempt succeeded.
Succeeded(w) ==
    /\ wpc[w] \in {"cleanup", "count", "counting", "close", "done"}
    /\ attempt[w] < MAX_ATTEMPTS

\* The entries of each kind the log holds for worker w.
Retrying(w) == CopiesIn(LogEntry("retrying", w), log_buffer)
Exiting(w) == CopiesIn(LogEntry("exiting", w), log_buffer)

\* The offsets of the resource the server sends for segment w.
Served(w) == args[w].start .. Min(args[w].end, res - 1)

\* The file holds the resource's byte at offset o.
HoldsSource(o) == o < Len(file) /\ file[o + 1] = SourceByte(o)

\* wait_for_threads returned because every worker was counted, and no
\* cancel or abort was issued.
ReturnedUncancelled ==
    /\ pc \in {"complete", "destroyed", "freed", "exit"}
    /\ completed_counter = max_threads
    /\ ~HasExiting(log_buffer)
    /\ \A w \in Workers : ~cancel_req[w]

\* C1: when every segment's fetch succeeded within its 5 attempts and no
\* cancel was issued, then once the wait loop has returned the file holds
\* the source byte at every offset of [0, contentLength), under every
\* interleaving of setup_download's loop with the running workers' writes.
C1_FileEqualsSource ==
    (ReturnedUncancelled /\ \A w \in Workers : Succeeded(w)) =>
        \A o \in 0..(res - 1) : HoldsSource(o)

\* C2: in every state the sets of file offsets two distinct workers have
\* written are disjoint, for every contentLength > 0 and every thread count,
\* thread counts larger than contentLength included.
C2_WritesDisjoint ==
    \A v, w \in Workers : v # w => written[v] \cap written[w] = {}

\* C9, in a state: a worker has failed at most 5 times and is in a transfer
\* only after fewer than 5 failures; the log holds no more "retrying"
\* entries of a worker than it has failed attempts before the 5th, an
\* "exiting" entry only when its 5th attempt has failed and none when it
\* succeeded; and it holds exactly these entries while no append has
\* overwritten another.
C9_Counts ==
    \A w \in Workers :
        /\ attempt[w] \in 0..MAX_ATTEMPTS
        /\ wpc[w] = "perform" => attempt[w] < MAX_ATTEMPTS
        /\ Succeeded(w) => (Retrying(w) <= attempt[w] /\ Exiting(w) = 0)
        /\ Retrying(w) <= Min(attempt[w], MAX_ATTEMPTS - 1)
        /\ Exiting(w) <= IF attempt[w] = MAX_ATTEMPTS THEN 1 ELSE 0
        /\ overlaps = 0 =>
              /\ Retrying(w) = Min(attempt[w], MAX_ATTEMPTS - 1)
              /\ Exiting(w) = IF attempt[w] = MAX_ATTEMPTS THEN 1 ELSE 0

\* C9, in a step: a worker that has left the retry loop starts no transfer
\* and fails no attempt.
C9_Stops ==
    \A w \in Workers :
        wpc[w] \in {"cleanup", "count", "counting", "close", "done"} =>
            /\ wpc'[w] # "perform"
            /\ attempt'[w] = attempt[w]

\* C9, in a step: the step that ends a failed attempt of a worker appends
\* one entry for its segment, "exiting" after the 5th attempt and "retrying"
\* otherwise, and no other step adds an entry for that segment.
C9_Appends ==
    \A w \in Workers :
        IF attempt'[w] # attempt[w]
        THEN LET e == LogEntry(FailureKind(attempt[w]), w)
                 o == LogEntry(FailureKind(MAX_ATTEMPTS - 1 - attempt[w]), w)
             IN  /\ attempt'[w] = attempt[w] + 1
                 /\ CopiesIn(e, log_buffer') >= 1
                 /\ CopiesIn(e, log_buffer') <= CopiesIn(e, log_buffer) + 1
                 /\ o # e => CopiesIn(o, log_buffer') <= CopiesIn(o, log_buffer)
        ELSE /\ Retrying(w)' <= Retrying(w)
             /\ Exiting(w)' <= Exiting(w)

\* C9: each worker makes at most 5 attempts and stops at the first success;
\* a worker whose first k attempts fail and whose next succeeds appends
\* exactly k "retrying" entries and no "exiting" entry; "exiting" is appended
\* only when the 5th attempt fails.
C9_RetryPolicy == []C9_Counts /\ [][C9_Stops /\ C9_Appends]_vars

\* C9's case: a worker whose first four attempts failed and whose fifth
\* succeeded has finished.
C9_Witness ==
    \E w \in Workers :
        /\ wpc[w] = "done"
        /\ attempt[w] = 4
        /\ Retrying(w) = 4
        /\ Exiting(w) = 0

\* C10: the write cursor is at the segment's start at the beginning of every
\* attempt, and after any number of failed attempts (each having written a
\* prefix of the range) followed by a success the final bytes of the file at
\* the segment's offsets are the source bytes of that range (stated for the
\* runs that end with every worker counted and no cancel or abort).
C10_IdempotentRetry ==
    \A w \in Workers :
        /\ wpc[w] = "perform" => buffer[w].pos = args[w].start + xfer[w]
        /\ (pc = "exit" /\ ReturnedUncancelled /\ Succeeded(w)) =>
              \A o \in Served(w) : HoldsSource(o)

\* ------------------------------------------------- exhaustion and abort
\* Worker w's thread has ended, by return NULL or by cancellation.
Terminal(w) == wpc[w] \in {"done", "cancelled"}

\* quit_handler has logged the user's cancel.
UserCancelled == CopiesIn(LogEntry("cancelled", -1), log_buffer) > 0

\* C11: a segment that failed all 5 attempts has exactly one "exiting" entry
\* in the log, and (no cancel by the user) the run ends with the completion
\* counter at the full worker count: the exhausted worker and every other
\* worker have returned, were counted and have closed their file handles.
C11_ExhaustedStillCounted ==
    \A w \in Workers :
        /\ Exiting(w) <= 1
        /\ attempt[w] = MAX_ATTEMPTS => Exiting(w) = 1
        /\ (pc = "exit" /\ Exiting(w) = 1 /\ ~UserCancelled) =>
              /\ completed_counter = max_threads
              /\ \A v \in Workers : wpc[v] = "done" /\ ~buffer[v].open

\* ------------------------------------------------- the completion counter
\* Worker w has left download_worker's code for good: it is past its
\* increment, or its thread has ended.
Exited(w) == wpc[w] \in {"close", "done", "cancelled"}

\* C12: the counter is incremented exactly once per worker on that worker's
\* terminal exit (success, retry exhaustion or forced abort), under the
\* mutex: in every state (here: of a run without a cancel by the user) the
\* counter equals the number of workers that have reached their exit, it
\* never exceeds the worker count, and at most one worker is inside the
\* increment.
C12_CountsEveryExit ==
    ~UserCancelled =>
        /\ completed_counter = Cardinality({w \in Workers : Exited(w)})
        /\ completed_counter <= Cardinality(Workers)
        /\ Cardinality({w \in Workers : wpc[w] = "counting"}) <= 1

\* ------------------------------------------------------------------ pause
\* C13: while the pause flag is set no worker's received-byte counter
\* increases, a worker that fails and begins a new attempt while paused
\* included; and the resume leaves every worker in the attempt it was in,
\* with the bytes it had received.
C13_PauseCorrect ==
    [][paused =>
         \A w \in Workers :
             /\ progress'[w].downloaded <= progress[w].downloaded
             /\ xfer'[w] <= xfer[w]
             /\ ~paused' => (attempt'[w] = attempt[w] /\ xfer'[w] = xfer[w])]_vars

\* ------------------------------------------------------------ convergence
\* wait_for_threads has returned.
WaitReturned == pc \in {"complete", "destroyed", "freed", "exit"}

\* C14: the wait loop ends only with the completion counter equal to the
\* worker count, whatever attempts succeeded or failed and however often the
\* user paused and resumed (the user's cancel apart).
C14_ConvergesToCount ==
    (WaitReturned /\ ~UserCancelled) => completed_counter = max_threads

\* ------------------------------------------------------------------ cancel
\* Largest content length in the model with fair scheduling.
MaxFairLen == 1

\* The download of a resource of at most MaxFairLen bytes.
InitFair ==
    /\ max_threads \in 1..MaxThreads
    /\ res \in 1..MaxFairLen
    /\ requested = max_threads
    /\ tolerance = max_threads
    /\ pc = "probed"
    /\ ProbePassed(max_threads)
    /\ NoDownload
    /\ Benign

\* The steps of worker w that need nothing but the processor, and the
\* delivery of a pending cancellation at a cancellation point.
WorkerRuns(w) ==
    Cleanup(w) \/ CountLock(w) \/ CountUnlock(w) \/ Close(w) \/ Cancelled(w)

\* The transport of worker w goes on with the transfer it is in: it delivers
\* the next block or, the range delivered, ends the transfer.  (It is never
\* obliged to fail, and a transfer whose reception is paused does not go on.)
TransportRuns(w) == Receive(w) \/ Succeed(w)

\* The main thread goes on: setup_download, the iterations of the wait loop
\* when getch times out, and main's teardown.  No key press is ever obliged.
MainRuns ==
    \/ \E env \in FileOutcomes : SetupBegin(env)
    \/ \E env \in {"ok", "fopen_fails"} : SetupStep(env)
    \/ WaitPoll("none")
    \/ WaitReturn
    \/ MutexDestroy
    \/ FreeAll
    \/ MainReturn

\* The download under a fair scheduler and a transport that goes on.
SpecFair ==
    /\ InitFair
    /\ [][Next]_vars
    /\ WF_vars(MainRuns)
    /\ \A w \in 0..(MaxThreads - 1) :
         WF_vars(WorkerRuns(w)) /\ WF_vars(TransportRuns(w))

\* No worker thread runs any more: each has returned or been cancelled, or
\* the process has ended.
AllStopped == ~Alive \/ \A w \in Workers : Terminal(w)

\* C15: once the user's cancel is in the log (the download paused or not),
\* cancellation has been requested of every worker and the wait loop has
\* returned; and from then on eventually no worker thread runs any more.
C15_CancelStopsAll ==
    /\ [](UserCancelled =>
            /\ pc \notin {"setup", "wait"}
            /\ \A w \in Workers : cancel_req[w])
    /\ (UserCancelled ~> AllStopped)

\* --------------------------------------------------------------- isolation
\* C16: a transport failure of one segment, the exhaustion of its retries
\* included, never makes a sibling be terminated or cut short: unless the
\* user cancels, no worker that has attempts left is asked to cancel or is
\* cancelled.
C16_SiblingsIsolated ==
    ~UserCancelled =>
        \A w \in Workers :
            attempt[w] < MAX_ATTEMPTS => (~cancel_req[w] /\ wpc[w] # "cancelled")

\* --------------------------------------------------------------- pre-flight
\* C17: when the content length cannot be fetched or is not positive, the
\* destination file cannot be created or cannot be pre-allocated, or a
\* worker's write handle cannot be opened, the job aborts and no worker
\* thread was ever started: no run that exits with a failure has started a
\* worker, and the worker loop is entered only with the file allocated.
C17_PreflightAborts ==
    /\ pc = "exit_failure" => Workers = {}
    /\ (pc = "setup" /\ max_threads >= 1) => Len(file) = res \/ Workers # {}

\* --------------------------------------------------------------- lifecycle
\* main has begun to release the state it shares with the workers.
Released == pc \in {"destroyed", "freed", "exit"}

\* C18: the shared state (the mutex, thread_infos and the progress arrays) is
\* released only after every worker has reached its terminal state, on the
\* normal path and on the cancel/abort path alike, and no worker is left to
\* use it after its release.
C18_ReleasedAfterWorkers ==
    /\ Released => \A w \in Workers : Terminal(w)
    /\ \A w \in Workers : ~UsesReleased(w)

\* ------------------------------------------------------------------ sizing
\* Segment i holds no byte of the resource, or its end lies before its start.
EmptySegment(i) == args[i].end < args[i].start \/ args[i].start > res - 1

\* C19: when the effective thread count exceeds the content length the
\* planning fails with a sizing error and no worker is started, so that no
\* planned segment is ever empty or has its end before its start.
C19_SizingChecked ==
    /\ max_threads > res => Workers = {}
    /\ \A i \in Segments : ~EmptySegment(i)

\* --------------------------------------------------------- pre-allocation
\* C20: the destination file is allocated to the content length before any
\* worker writes, and keeps that extent: no step after the allocation
\* shrinks or truncates the file (the opening of a worker's handle least of
\* all), and at the moment of every worker's write the file has the extent
\* contentLength.
C20_ExtentKept ==
    [][/\ pc \in {"setup", "wait"} => Len(file') >= Len(file)
       /\ (\E w \in Workers : written'[w] # written[w]) => Len(file) = res]_vars

\* ------------------------------------------------------ abort on exhaustion
\* Worker w has failed its last attempt and its "exiting" entry is written.
Exhausted(w) == attempt[w] = MAX_ATTEMPTS /\ wpc[w] # "logging"

\* This step is an iteration of wait_for_threads' loop that shows in the
\* state: it handles P, or it ends the loop.
ControllerPolls == pc = "wait" /\ (pc' # pc \/ paused' # paused)

\* C21: once a worker has exhausted its retries and logged "exiting", the
\* controller's next poll aborts the download: it requests the cancellation
\* of every worker thread and ends the wait loop, whatever the counter
\* (unless the counter has reached the worker count, which ends the loop
\* before the poll).
C21_AbortAtNextPoll ==
    [][(ControllerPolls /\ \E w \in Workers : Exhausted(w)) =>
          /\ pc' = "complete"
          /\ completed_counter < max_threads => \A w \in Workers : cancel_req'[w]]_vars

\* ------------------------------------------------------------ final status
\* C22: whenever the wait loop has returned (all workers counted, a segment
\* failed for good, or the user cancelled) the final status main reports is
\* "Download Complete": no state reports anything else, and none is reported
\* before the wait loop has returned.
C22_AlwaysComplete ==
    /\ reported \in {"none", "Download Complete"}
    /\ pc \in {"destroyed", "freed", "exit"} => reported = "Download Complete"
    /\ pc \in {"probed", "setup", "wait", "complete"} => reported = "none"

\* C22's case: main has returned after an abort that left a segment failed
\* for good and the counter below the worker count.
C22_Witness ==
    /\ pc = "exit"
    /\ reported = "Download Complete"
    /\ completed_counter < max_threads
    /\ \E w \in Workers : attempt[w] = MAX_ATTEMPTS /\ Exiting(w) = 1

\* ------------------------------------------------- the harsh environment
\* The download of a resource of at most MaxFairLen bytes in any environment:
\* the error text of the transport short or as long as errbuf allows, the
\* file system with room or full.
InitEnv ==
    /\ max_threads \in 1..MaxThreads
    /\ res \in 1..MaxFairLen
    /\ requested = max_threads
    /\ tolerance = max_threads
    /\ pc = "probed"
    /\ ProbePassed(max_threads)
    /\ NoDownload
    /\ errlen \in {ShortErrLen, CURL_ERROR_SIZE - 1}
    /\ disk \in {"ok", "full"}
    /\ overlaps = 0

\* ------------------------------------------------- the preempted strcat
\* Some worker is between the search of strcat and its copy.
InStrcat == \E w \in Workers : wpc[w] = "logging"

\* Another thread has appended to log_buffer since that search.
Overlapped == \E w \in Workers : wpc[w] = "logging" /\ scanned[w] # log_buffer

\* The steps of Next while no strcat is preempted.
OutsideStrcat == ~InStrcat /\ Next

\* The one step the scheduler runs between the search of a preempted strcat
\* and its copy: an append to log_buffer by another thread (a step that
\* leaves log_buffer alone commutes with the search and with the copy).
InsideStrcat ==
    /\ InStrcat
    /\ ~Overlapped
    /\ \/ \E w \in 0..(MaxThreads - 1) : Fail(w)
       \/ SetupStep("ok")
       \/ \E k \in {"p", "q"} : WaitPoll(k) \/ UseAfterCleanup(k)

\* A worker's strcat is preempted while no other is.
Preempted(w) == ~InStrcat /\ FailPreempted(w)

NextRace ==
    \/ OutsideStrcat
    \/ \E w \in 0..(MaxThreads - 1) : Preempted(w)
    \/ InsideStrcat
    \/ \E w \in 0..(MaxThreads - 1) : LogAppend(w)

SpecRace == InitFair /\ [][NextRace]_vars

\* ---------------------------------------------------------- the shared log
\* C23: appends to log_buffer exclude one another: no thread appends while a
\* worker is between the search and the copy of its own strcat, and no entry
\* is lost, the log holding one entry for every failed attempt of a worker.
C23_AppendsExclusive ==
    /\ ~Overlapped
    /\ \A w \in Workers :
          wpc[w] # "logging" => Retrying(w) + Exiting(w) = attempt[w]

\* ------------------------------------------------------ the log's capacity
\* The decimal digits of a thread index (at most 31).
Digits(i) == IF i < 10 THEN 1 ELSE 2

\* snprintf(log, size, ...): the characters it leaves in log for a text of n.
Snprintf(n, size) == Min(n, size - 1)

\* strlen of the entry as formatted for the log, colour codes included, the
\* error text having err characters.
EntryLen(e, err) ==
    CASE e.kind = "started" ->
            Snprintf(STARTED_TEXT + Digits(e.thread), HANDLER_LOG_SIZE)
      [] e.kind = "retrying" ->
            Snprintf(RETRYING_TEXT + Digits(e.thread) + err, WORKER_LOG_SIZE)
      [] e.kind = "exiting" ->
            Snprintf(EXITING_TEXT + Digits(e.thread) + err, WORKER_LOG_SIZE)
      [] e.kind = "resumed" -> Snprintf(RESUMED_TEXT, HANDLER_LOG_SIZE)
      [] e.kind = "paused" -> Snprintf(PAUSED_TEXT, HANDLER_LOG_SIZE)
      [] e.kind = "cancelled" -> Snprintf(CANCELLED_TEXT, HANDLER_LOG_SIZE)

RECURSIVE SumLen(_, _, _)
SumLen(es, log, err) ==
    IF es = {} THEN 0
    ELSE LET e == CHOOSE x \in es : TRUE
         IN  CopiesIn(e, log) * EntryLen(e, err) + SumLen(es \ {e}, log, err)

\* strlen(log_buffer) after the appends, were the array long enough.
LogBytes(log, err) == SumLen(BagToSet(log), log, err)

\* The string and its terminator fit char log_buffer[2048].
Fits(log, err) == LogBytes(log, err) + 1 <= LOG_BUFFER_SIZE

\* A strcat has written past the end of log_buffer, over the globals that
\* follow it: the program goes on with them overwritten, or the process
\* fails.
BufferOverrun ==
    /\ Alive
    /\ ~Fits(log_buffer, errlen)
    /\ pc' = "crash"
    /\ UNCHANGED <<envVars, requested, tolerance, max_threads, res, probeVars,
                   planVars, workerVars, sharedVars>>

NextEnv == Next \/ BufferOverrun

\* C24: the entries appended to the log and the terminator fit the 2048
\* bytes of log_buffer.
C24_LogFits == Fits(log_buffer, errlen)

SpecEnv == InitEnv /\ [][NextEnv]_vars

\* ------------------------------------------------------- checked writes
\* C25: a worker that has left its retry loop on a successful attempt has
\* written every byte of the range the server sent it.
C25_WritesChecked ==
    \A w \in Workers : Succeeded(w) => Served(w) \subseteq written[w]

\* ---------------------------------------------------- close before count
\* C26: when the completion counter equals the worker count, every worker
\* has closed its file handle.
C26_ClosedWhenCounted ==
    (PlanDone /\ completed_counter = max_threads) =>
        \A w \in Workers : ~buffer[w].open

\* ------------------------------------------------------ handles in use
\* The controller pauses or resumes the workers, or aborts them (the abort
\* ends the wait loop below the count, or ends the process).
ControllerOperates ==
    /\ pc = "wait"
    /\ \/ paused' # paused
       \/ pc' = "complete" /\ completed_counter < max_threads
       \/ pc' = "crash"

\* C27: when the controller pauses, resumes or aborts the workers, no
\* worker has yet cleaned up its transport handle.
C27_HandlesLive ==
    [][ControllerOperates => \A w \in Workers : curl[w].state = "live"]_vars

\* ------------------------------------------------------ the probe's threads
\* C28: once find_max_threads has returned, every probe thread it started has
\* finished its request (and was joined), so none runs during the download.
C28_ProbeJoined ==
    ProbeReturned => \A j \in DOMAIN probe_threads : probe_threads[j].done

====
